---- MODULE Spec2Model ----
(***************************************************************************)
(* The parallel frame-rendering pipeline of src/src/sim.py:                *)
(*   load -> makedirs -> Pool() -> pool.imap(process_frame) ->             *)
(*   ImageSequenceClip(temp_dir).write_videofile -> cleanup.               *)
(* File names are sequences of code points, so that the zero-padded        *)
(* formatting of the index and the sorted directory listing read by the    *)
(* video assembler are computed, not assumed.                              *)
(***************************************************************************)
EXTENDS Integers, Sequences, FiniteSets, TLC

\* ---------------------------------------------------------------- bounds
MaxSnapshots == 3      \* longest trajectory of the small runs
MaxWorkers == 2        \* largest os.cpu_count() of the small runs
MaxAtoms == 2          \* largest per-snapshot atom count in the input file
LongSnapshots == 10001 \* trajectory length of the long run
LongTail == 3          \* frames of the long run still to be rendered

\* ------------------------------------------------------- program constants
PadWidth == 4          \* f'frame_{i:04d}.png'

\* ------------------------------------------------------------- file names
\* the characters of s
CharsOf(s) == {SubSeq(s, k, k) : k \in 1..Len(s)}

\* the code points of the consecutive characters of s, the first being first
CodeTable(s, first) ==
  [c \in CharsOf(s) |-> first - 1 + CHOOSE k \in 1..Len(s) : SubSeq(s, k, k) = c]

\* ord(c) for the characters that occur in the names of this model
CodePoint ==
  CodeTable("./0123456789", 46) @@ CodeTable("ABCDEFGHIJKLMNOPQRSTUVWXYZ", 65)
    @@ CodeTable("_", 95) @@ CodeTable("abcdefghijklmnopqrstuvwxyz", 97)

temp_dir == "temp"

\* a file that is not an image
DSStore == ".DS_Store"

\* the decimal digit d as a character
Digit(d) == SubSeq("0123456789", d + 1, d + 1)

RECURSIVE DecimalDigits(_)
\* str(i) for i >= 0
DecimalDigits(i) ==
  IF i < 10 THEN Digit(i) ELSE DecimalDigits(i \div 10) \o Digit(i % 10)

RECURSIVE ZeroPad(_, _)
\* left-pad with '0' up to a minimum width; longer strings are left alone
ZeroPad(s, width) ==
  IF Len(s) >= width THEN s ELSE ZeroPad("0" \o s, width)

\* f'{i:04d}'
Format04d(i) == ZeroPad(DecimalDigits(i), PadWidth)

\* a file name that leaves the index out
FrameNameShared(i) == "frame_" \o Format04d(0) \o ".png"

\* f'frame_{i:04d}.png'
FrameName(i) == "frame_" \o Format04d(i) \o ".png"

\* os.path.join(temp_dir, name)
PathJoin(d, name) == d \o "/" \o name

\* frame_path of process_frame
FramePath(i) == PathJoin(temp_dir, FrameName(i))

\* ------------------------------------------------------------- str order
\* the character of s at position k
At(s, k) == SubSeq(s, k, k)

\* the character of least code point
MinChar(S) == CHOOSE c \in S : \A d \in S : CodePoint[c] <= CodePoint[d]

RECURSIVE SortedFrom(_, _), CatBuckets(_, _, _)
\* sorted(S) for a set S of strings that agree on their first pos-1
\* characters: the string that ends there first, then bucket by bucket in
\* ascending order of the code point at pos
SortedFrom(S, pos) ==
  IF S = {} THEN <<>>
  ELSE IF Cardinality(S) = 1 THEN <<CHOOSE s \in S : TRUE>>
  ELSE LET ended == {s \in S : Len(s) < pos}
           rest == S \ ended
       IN  (IF ended = {} THEN <<>> ELSE <<CHOOSE s \in ended : TRUE>>)
             \o CatBuckets(rest, pos, {At(s, pos) : s \in rest})

CatBuckets(S, pos, heads) ==
  IF heads = {} THEN <<>>
  ELSE LET c == MinChar(heads)
       IN  SortedFrom({s \in S : At(s, pos) = c}, pos + 1)
             \o CatBuckets(S, pos, heads \ {c})

\* sorted(os.listdir(d)) of a directory holding the names S
SortedListing(S) == SortedFrom(S, 1)

\* ------------------------------------------------------------------ state
VARIABLES
  pc,              \* position of the main script
  simulation_data, \* the parsed JSON document: num_atoms and, per snapshot,
                   \* the number of position triples it holds
  trajectory,      \* np.array(simulation_data['trajectory'])
  cpu_count,       \* os.cpu_count(), the size of Pool()
  temp_exists,     \* whether the directory 'temp' exists
  temp_files,      \* the files of 'temp': name -> content
  next_task,       \* index of the next element of args that imap hands out
  worker,          \* per worker process: the snapshot it renders, or Idle
  ax_uses,         \* per worker process: the process_frame invocations
                   \* that drew on its copy of the module-level ax
  invocations,     \* process_frame invocations started
  results,         \* per element of args: the outcome of its process_frame
                   \* invocation, once it has one
  frame_paths,     \* list(pool.imap(...)), once the dispatch has returned
  video            \* the frames written to argon_simulation.mp4, in order

vars == <<pc, simulation_data, trajectory, cpu_count, temp_exists, temp_files,
          next_task, worker, ax_uses, invocations, results, frame_paths,
          video>>

Idle == -1

\* outcome of a process_frame invocation
Pending == [state |-> "pending", value |-> ""]
Returned(path) == [state |-> "returned", value |-> path]
Raise == [state |-> "raised", value |-> ""]
NoFiles == <<>>
NoVideo == <<>>

\* content of a file of 'temp'
Rendering(i) == [image |-> TRUE, run |-> "this", snapshot |-> i]
OldFrame == [image |-> TRUE, run |-> "earlier", snapshot |-> -1]
NotImage == [image |-> FALSE, run |-> "earlier", snapshot |-> -1]

\* what 'temp' may hold before the script starts: frames of an earlier run
\* (one inside, one beyond the range of any small run) and a non-image file
LeftoverNames == {FrameName(0), FrameName(MaxSnapshots), DSStore}
LeftoverContent(name) == IF name = DSStore THEN NotImage ELSE OldFrame

Workers == 1..cpu_count
Snapshots == 0..(trajectory.len - 1)

\* ------------------------------------------------------------------- load
\* shapes of the 'trajectory' list of the input file, one atom count per
\* snapshot
TrajectoryLists == UNION {[1..n -> 1..MaxAtoms] : n \in 0..MaxSnapshots}

IsRagged(t) == \E a, b \in DOMAIN t : t[a] # t[b]

\* np.array(t) of a list whose sublists all have the same length
AsNdarray(t) ==
  [len |-> Len(t), atoms |-> IF Len(t) = 0 THEN 0 ELSE t[1], kind |-> "ndarray"]

\* np.array(t) of a ragged list under NumPy < 1.24: a 1-D array of lists
AsObjectArray(t) == [len |-> Len(t), atoms |-> 0, kind |-> "object"]

NotLoaded == [len |-> 0, atoms |-> 0, kind |-> "none"]

Init ==
  /\ pc = "load"
  /\ simulation_data \in [num_atoms : 1..MaxAtoms, trajectory : TrajectoryLists]
  /\ trajectory = NotLoaded
  /\ cpu_count \in 1..MaxWorkers
  /\ temp_exists \in BOOLEAN
  /\ \E S \in SUBSET LeftoverNames :
       /\ (~temp_exists => S = {})
       /\ temp_files = [name \in S |-> LeftoverContent(name)]
  /\ next_task = 0
  /\ worker = <<>>
  /\ ax_uses = <<>>
  /\ invocations = 0
  /\ results = <<>>
  /\ frame_paths = <<>>
  /\ video = NoVideo

\* lines 28-44: read the file, extract the parameters, convert the
\* trajectory.  num_atoms is read into N and never compared with anything.
\* A ragged list makes np.array raise (NumPy >= 1.24) or yields an object
\* array (older NumPy).  The parsed list is not read again afterwards.
Load ==
  /\ pc = "load"
  /\ LET t == simulation_data.trajectory IN
       \/ /\ ~IsRagged(t)
          /\ trajectory' = AsNdarray(t)
          /\ pc' = "makedirs"
       \/ /\ IsRagged(t)
          /\ trajectory' = AsObjectArray(t)
          /\ pc' = "makedirs"
       \/ /\ IsRagged(t)
          /\ trajectory' = NotLoaded
          /\ pc' = "error"
  /\ simulation_data' = [simulation_data EXCEPT !.trajectory = <<>>]
  /\ UNCHANGED <<cpu_count, temp_exists, temp_files, next_task, worker,
                 ax_uses, invocations, results, frame_paths, video>>

\* lines 47-48: os.makedirs(temp_dir, exist_ok=True)
MakeDirs ==
  /\ pc = "makedirs"
  /\ temp_exists' = TRUE
  /\ pc' = "pool"
  /\ UNCHANGED <<simulation_data, trajectory, cpu_count, temp_files, next_task,
                 worker, ax_uses, invocations, results, frame_paths,
                 video>>

\* lines 51-58: the one figure and axes are created at module level, args is
\* built, and Pool() forks cpu_count workers, each with its copy of ax
StartPool ==
  /\ pc = "pool"
  /\ worker' = [w \in Workers |-> Idle]
  /\ ax_uses' = [w \in Workers |-> 0]
  /\ invocations' = 0
  /\ results' = [i \in Snapshots |-> Pending]
  /\ next_task' = 0
  /\ pc' = "render"
  /\ UNCHANGED <<simulation_data, trajectory, cpu_count, temp_exists,
                 temp_files, frame_paths, video>>

\* --------------------------------------------------------------- dispatch
\* f with key bound to val, whether or not f had key
Put(f, key, val) == (key :> val) @@ f

\* imap hands the elements of args out one by one, in order
NextIndex(i) == i + 1

\* a worker takes the next element of args and enters process_frame, which
\* draws on the worker's copy of the module-level ax (line 16)
TakeTask(w) ==
  /\ pc = "render"
  /\ worker[w] = Idle
  /\ next_task < trajectory.len
  /\ worker' = [worker EXCEPT ![w] = next_task]
  /\ invocations' = invocations + 1
  /\ ax_uses' = [ax_uses EXCEPT ![w] = @ + 1]
  /\ next_task' = NextIndex(next_task)
  /\ UNCHANGED <<pc, simulation_data, trajectory, cpu_count, temp_exists,
                 temp_files, results, frame_paths, video>>

\* lines 15-25: process_frame(i, positions) runs to its return: savefig
\* writes (or overwrites) frame_path.  positions[:, 0] needs an ndarray.
FinishTask(w) ==
  /\ pc = "render"
  /\ worker[w] # Idle
  /\ trajectory.kind = "ndarray"
  /\ LET i == worker[w] IN
       /\ temp_files' = Put(temp_files, FrameName(i), Rendering(i))
       /\ results' = [results EXCEPT ![i] = Returned(FramePath(i))]
  /\ worker' = [worker EXCEPT ![w] = Idle]
  /\ UNCHANGED <<pc, simulation_data, trajectory, cpu_count, temp_exists,
                 next_task, ax_uses, invocations, frame_paths, video>>

\* process_frame raises before savefig has written the file: always on an
\* object array (positions is a list), and whenever rendering fails
FailTask(w) ==
  /\ pc = "render"
  /\ worker[w] # Idle
  /\ results' = [results EXCEPT ![worker[w]] = Raise]
  /\ worker' = [worker EXCEPT ![w] = Idle]
  /\ UNCHANGED <<pc, simulation_data, trajectory, cpu_count, temp_exists,
                 temp_files, next_task, ax_uses, invocations,
                 frame_paths, video>>

\* every element has an outcome, a raised exception counting as one
AllFinished == {i \in Snapshots : results[i].state = "pending"} = {}

\* the iterator of imap has yielded every element
AllRendered == {i \in Snapshots : results[i].state # "returned"} = {}

\* the iterator of imap re-raises at the first element whose call raised,
\* after yielding the elements before it
Raised == {i \in DOMAIN results : results[i].state = "raised"}

Raises(k) ==
  /\ k \in Raised
  /\ {j \in 0..(k - 1) : results[j].state # "returned"} = {}

\* line 59 returns: frame_paths holds the results in the order of args, and
\* leaving the with block terminates the pool
DispatchReturn ==
  /\ pc = "render"
  /\ AllRendered
  /\ frame_paths' = [k \in 1..trajectory.len |-> results[k - 1].value]
  /\ worker' = [w \in Workers |-> Idle]
  /\ pc' = "assemble"
  /\ UNCHANGED <<simulation_data, trajectory, cpu_count, temp_exists,
                 temp_files, next_task, ax_uses, invocations, results,
                 video>>

\* line 59 raises: the exception leaves the with block, which terminates the
\* pool, and ends the script
DispatchRaise ==
  /\ pc = "render"
  /\ \E k \in Raised : Raises(k)
  /\ worker' = [w \in Workers |-> Idle]
  /\ pc' = "error"
  /\ UNCHANGED <<simulation_data, trajectory, cpu_count, temp_exists,
                 temp_files, next_task, ax_uses, invocations, results,
                 frame_paths, video>>

\* --------------------------------------------------------------- assembly
\* ImageSequenceClip(temp_dir): every file of the directory, in sorted order
ClipSequence(files) == SortedListing(DOMAIN files)

\* the clip can be built and encoded: there is a first file, and every file
\* is an image
Readable(files) ==
  /\ DOMAIN files # {}
  /\ {name \in DOMAIN files : ~files[name].image} = {}

\* the frames of the clip: the content of each file of the sequence
FramesOf(files, sequence) ==
  [k \in 1..Len(sequence) |-> files[sequence[k]]]

\* the exception of write_videofile swallowed, the script going on
CleanupAfterAssembleFail == "cleanup"

\* where the script continues when write_videofile raises
AfterAssembleFail == "error"

\* lines 64-65 succeed
AssembleOk ==
  /\ pc = "assemble"
  /\ Readable(temp_files)
  /\ video' = FramesOf(temp_files, ClipSequence(temp_files))
  /\ pc' = "cleanup"
  /\ UNCHANGED <<simulation_data, trajectory, cpu_count, temp_exists,
                 temp_files, next_task, worker, ax_uses, invocations,
                 results, frame_paths>>

\* lines 64-65 raise (no file, a file that is no image, the encoder fails)
AssembleFail ==
  /\ pc = "assemble"
  /\ pc' = AfterAssembleFail
  /\ UNCHANGED <<simulation_data, trajectory, cpu_count, temp_exists,
                 temp_files, next_task, worker, ax_uses, invocations,
                 results, frame_paths, video>>

\* ---------------------------------------------------------------- cleanup
\* os.listdir(temp_dir)
ListDir(files) == DOMAIN files

\* the directory after os.remove of each of names
RemoveAll(files, names) == [n \in DOMAIN files \ names |-> files[n]]

\* the directory left in place
RmdirSkipped == TRUE

\* whether 'temp' exists after os.rmdir(temp_dir) has returned
ExistsAfterRmdir == FALSE

\* lines 70-74: list the directory (FileNotFoundError when it is missing),
\* remove what was listed, remove the directory (OSError when not empty)
Cleanup ==
  /\ pc = "cleanup"
  /\ IF ~temp_exists
       THEN /\ pc' = "error"
            /\ UNCHANGED <<temp_exists, temp_files>>
       ELSE LET left == RemoveAll(temp_files, ListDir(temp_files)) IN
              /\ temp_files' = left
              /\ IF DOMAIN left = {}
                   THEN temp_exists' = ExistsAfterRmdir /\ pc' = "done"
                   ELSE temp_exists' = temp_exists /\ pc' = "error"
  /\ UNCHANGED <<simulation_data, trajectory, cpu_count, next_task, worker,
                 ax_uses, invocations, results, frame_paths, video>>

\* ---------------------------------------------------------- specification
Next ==
  \/ Load
  \/ MakeDirs
  \/ StartPool
  \/ \E w \in Workers : TakeTask(w)
  \/ \E w \in Workers : FinishTask(w)
  \/ \E w \in Workers : FailTask(w)
  \/ DispatchReturn
  \/ DispatchRaise
  \/ AssembleOk
  \/ AssembleFail
  \/ Cleanup

Spec == Init /\ [][Next]_vars

\* ------------------------------------------------------------ the long run
RECURSIVE DecimalValue(_)
\* int(s) of a string of decimal digits
DecimalValue(s) ==
  IF Len(s) = 0 THEN 0
  ELSE 10 * DecimalValue(SubSeq(s, 1, Len(s) - 1))
         + (CodePoint[At(s, Len(s))] - CodePoint["0"])

\* the index i of the name frame_<i>.png
FrameIndex(name) ==
  DecimalValue(SubSeq(name, Len("frame_") + 1, Len(name) - Len(".png")))

\* The dispatch of a trajectory of LongSnapshots snapshots, started in an
\* empty 'temp', at a moment when worker 1 has rendered every frame but the
\* last few (none to LongTail of them) and the other workers have rendered
\* nothing yet: a state the script reaches by Load, MakeDirs, StartPool and
\* alternating TakeTask(1), FinishTask(1).
InitLong ==
  \E tail \in 0..LongTail :
  LET done == LongSnapshots - tail IN
  /\ pc = "render"
  /\ simulation_data = [num_atoms |-> 1, trajectory |-> <<>>]
  /\ trajectory = [len |-> LongSnapshots, atoms |-> 1, kind |-> "ndarray"]
  /\ cpu_count \in 1..MaxWorkers
  /\ temp_exists = TRUE
  /\ temp_files = [name \in {FrameName(i) : i \in 0..(done - 1)} |->
                     Rendering(FrameIndex(name))]
  /\ next_task = done
  /\ worker = [w \in Workers |-> Idle]
  /\ ax_uses = [w \in Workers |-> IF w = 1 THEN done ELSE 0]
  /\ invocations = done
  /\ results = [i \in 0..(LongSnapshots - 1) |->
                  IF i < done THEN Returned(FramePath(i)) ELSE Pending]
  /\ frame_paths = <<>>
  /\ video = NoVideo

NextLong ==
  \/ \E w \in Workers : TakeTask(w)
  \/ \E w \in Workers : FinishTask(w)
  \/ \E w \in Workers : FailTask(w)
  \/ DispatchReturn
  \/ DispatchRaise
  \/ AssembleOk
  \/ AssembleFail
  \/ Cleanup

SpecLong == InitLong /\ [][NextLong]_vars

\* ------------------------------------------------- the cleanup block alone
\* The cleanup block entered after a successful assembly of n frames, with
\* 'temp' in any state a prior, partial or full, cleanup may have left:
\* any subset of the files, or no directory at all.
InitCleanup ==
  \E n \in 1..MaxSnapshots :
    /\ pc = "cleanup"
    /\ simulation_data = [num_atoms |-> 1, trajectory |-> <<>>]
    /\ trajectory = [len |-> n, atoms |-> 1, kind |-> "ndarray"]
    /\ cpu_count \in 1..MaxWorkers
    /\ temp_exists \in BOOLEAN
    /\ \E S \in SUBSET ({FrameName(i) : i \in 0..(n - 1)} \cup LeftoverNames) :
         /\ (~temp_exists => S = {})
         /\ temp_files = [name \in S |->
                            IF name = DSStore THEN NotImage
                            ELSE IF FrameIndex(name) < n
                                   THEN Rendering(FrameIndex(name))
                                   ELSE OldFrame]
    /\ next_task = n
    /\ worker = [w \in Workers |-> Idle]
    /\ ax_uses = [w \in Workers |-> IF w = 1 THEN n ELSE 0]
    /\ invocations = n
    /\ results = [i \in 0..(n - 1) |-> Returned(FramePath(i))]
    /\ frame_paths = [k \in 1..n |-> FramePath(k - 1)]
    /\ video = [k \in 1..n |-> Rendering(k - 1)]

NextCleanup == Cleanup

SpecCleanup == InitCleanup /\ [][NextCleanup]_vars

\* ================================================================ claims

\* every file of 'temp' was written by this run
OnlyThisRun == {n \in DOMAIN temp_files : temp_files[n].run # "this"} = {}

\* the file of 'temp' that a path of frame_paths names
Basename(path) == SubSeq(path, Len(temp_dir) + 2, Len(path))

DispatchReturned == pc \in {"assemble", "cleanup", "done"}

\* C1: with 'temp' holding nothing but this run's frames, the frames the
\* assembler consumes are frame 0, frame 1, ..., frame N-1 in this order,
\* for every N and every completion order of the workers.
C1_FrameOrder ==
  (pc = "cleanup" /\ OnlyThisRun) =>
    video = [k \in 1..trajectory.len |-> Rendering(k - 1)]

\* the files of 'temp' that this run wrote
ThisRunFiles == {n \in DOMAIN temp_files : temp_files[n].run = "this"}

\* C2: when the dispatch has returned, process_frame was started N times
\* and every snapshot has its result, the N invocations wrote N distinct
\* paths, and frame_paths has N entries, entry k naming the file that holds
\* the rendering of snapshot k (the files are there until cleanup, N of
\* them written by this run).
C2_OneFramePerSnapshot ==
  DispatchReturned =>
    /\ invocations = trajectory.len
    /\ \A i \in Snapshots : results[i].state = "returned"
    /\ Cardinality({results[i].value : i \in Snapshots}) = trajectory.len
    /\ Len(frame_paths) = trajectory.len
    /\ pc = "assemble" =>
         /\ Cardinality(ThisRunFiles) = trajectory.len
         /\ \A k \in Snapshots :
              /\ Basename(frame_paths[k + 1]) \in DOMAIN temp_files
              /\ temp_files[Basename(frame_paths[k + 1])] = Rendering(k)

\* C2 witness: a full-length trajectory rendered by all workers of the
\* largest pool, the dispatch just returned
C2_Witness ==
  /\ pc = "assemble"
  /\ trajectory.len = MaxSnapshots
  /\ cpu_count = MaxWorkers
  /\ \A w \in Workers : ax_uses[w] > 0

\* C3: once a process_frame invocation has raised, the script is still in
\* the dispatch or has ended in error: the assembler is never entered,
\* frame_paths is never bound and no video is written.
C3_RenderFailureAborts ==
  Raised # {} =>
    /\ pc \in {"render", "error"}
    /\ frame_paths = <<>>
    /\ video = NoVideo

\* C3 witness: the run has aborted on a failed frame although a later frame
\* had been rendered
C3_Witness ==
  /\ pc = "error"
  /\ \E k \in Raised : \E i \in DOMAIN results :
       k < i /\ results[i].state = "returned"
  /\ video = NoVideo

\* a file or the directory disappears in this step
Removes ==
  \/ temp_exists /\ ~temp_exists'
  \/ \E n \in DOMAIN temp_files : n \notin DOMAIN temp_files'

\* C4: a run that reaches its end has removed every file of 'temp' and the
\* directory itself, and nothing is removed before the video has been
\* written: a removal happens only in the cleanup block, after assembly.
C4_CleanupAfterAssembly ==
  /\ [](pc = "done" => (~temp_exists /\ DOMAIN temp_files = {}))
  /\ [][Removes => (pc = "cleanup" /\ video # NoVideo)]_vars

\* C4 witness: a full-length run has ended, its video holding a frame per
\* snapshot
C4_Witness ==
  /\ pc = "done"
  /\ trajectory.len = MaxSnapshots
  /\ Len(video) = MaxSnapshots

\* C5: the cleanup block completes without error whatever part of 'temp' is
\* already gone, the directory included, and leaves nothing behind.
C5_CleanupIdempotent ==
  \/ pc = "cleanup"
  \/ pc = "done" /\ ~temp_exists /\ DOMAIN temp_files = {}

\* write_videofile raised
AssemblyFailed ==
  pc = "error" /\ trajectory.kind = "ndarray" /\ AllRendered

\* C6: when assembly has failed, 'temp' and every frame file the render
\* stage wrote are still there, and the cleanup block is entered only with
\* the video written.
C6_AssemblyFailureKeepsFrames ==
  /\ AssemblyFailed =>
       /\ temp_exists
       /\ \A i \in Snapshots :
            /\ FrameName(i) \in DOMAIN temp_files
            /\ temp_files[FrameName(i)] = Rendering(i)
  /\ pc \in {"cleanup", "done"} => video # NoVideo

\* C6 witness: the assembly of a full-length run failed
C6_Witness ==
  /\ AssemblyFailed
  /\ trajectory.len = MaxSnapshots
  /\ video = NoVideo

\* the loaded trajectory has a snapshot whose number of position triples
\* differs from num_atoms
LoadedMismatch ==
  \/ trajectory.kind = "object"
  \/ /\ trajectory.kind = "ndarray"
     /\ trajectory.len > 0
     /\ trajectory.atoms # simulation_data.num_atoms

\* C7: in a run whose trajectory has a snapshot with a number of position
\* triples other than num_atoms, no process_frame invocation is started and
\* no frame file is written.
C7_ShapeMismatchFailsFast ==
  LoadedMismatch =>
    /\ invocations = 0
    /\ ThisRunFiles = {}

\* C8: no axes object is drawn on by two process_frame invocations.
C8_PrivateContext ==
  \A w \in DOMAIN ax_uses : ax_uses[w] <= 1

\* C9: the cleanup block leaves every file in place, unchanged, that this
\* run's process_frame calls did not write.
C9_CleanupKeepsOthers ==
  [][pc = "cleanup" =>
       \A n \in DOMAIN temp_files :
         temp_files[n].run = "earlier" =>
           (n \in DOMAIN temp_files' /\ temp_files'[n] = temp_files[n])]_vars

\* C10: whatever 'temp' held before the run of a trajectory of N >= 1
\* snapshots, the video has N frames and each comes from a file this run
\* wrote.
C10_VideoIsThisRun ==
  (pc \in {"cleanup", "done"} /\ trajectory.len >= 1) =>
    /\ Len(video) = trajectory.len
    /\ \A k \in DOMAIN video : video[k].run = "this"
====
